---- MODULE Spec2Model ----
(***************************************************************************)
(* Model of main.py: a FastAPI relay with two endpoints.                   *)
(*   POST /generate    forwards a prompt to the OpenRouter chat API, maps  *)
(*                     the outcome to an HTTP response and calls the n8n   *)
(*                     webhook on failure.                                 *)
(*   POST /reload-env  re-reads the .env file into the two module globals. *)
(*                                                                         *)
(* Encodings.  A configuration value (an environment string) is an         *)
(* integer: None (variable not set), EmptyStr (the string "") or one of    *)
(* 1..NumValues (distinct non-empty strings).  A text (prompt, generated   *)
(* content) is a sequence of character codes.  A JSON value is a tagged    *)
(* record.  A Python call that may raise yields [exc, val]: exc = "" when  *)
(* it returned val, otherwise the name of the exception class raised.      *)
(***************************************************************************)
EXTENDS Integers, Sequences, FiniteSets, TLC

\* ---------------------------------------------------------------- bounds
NumValues == 2

\* ------------------------------------------------------------- constants
MAX_TOKENS == 1000
InputPreviewLen == 50
OutputPreviewLen == 100

TARGET_MODEL == "openai/gpt-4o"
OPENROUTER_API_URL == "https://openrouter.ai/api/v1/chat/completions"
log_filename == "logs/app_<date>.log"

\* ------------------------------------------------- configuration values
None == -1
EmptyStr == 0
ConfigStrings == 0..NumValues
ConfigKeys == {"OPENROUTER_API_KEY", "N8N_WEBHOOK_URL"}

\* Python truthiness of an Optional[str]: `if not X` is taken for None and "".
TruthyStr(v) == v # None /\ v # EmptyStr

\* os.getenv(k): the value in os.environ, None when the key is not there.
getenv(env, k) == env[k]

\* Mutant: the override flag is dropped, a key os.environ has is always kept.
load_dotenv_IgnoreOverride(env, file, override) ==
    [k \in ConfigKeys |->
        IF file[k] = None THEN env[k]
        ELSE IF env[k] # None THEN env[k]
        ELSE file[k]]

\* load_dotenv(override): every KEY=value line of the file is copied into
\* os.environ; without override a key os.environ already has is kept.  A key
\* the file does not name is never removed from os.environ.
load_dotenv(env, file, override) ==
    [k \in ConfigKeys |->
        IF file[k] = None THEN env[k]
        ELSE IF env[k] # None /\ ~override THEN env[k]
        ELSE file[k]]

\* ------------------------------------------------------------------ text
Min(a, b) == IF a < b THEN a ELSE b

\* s[:n]
Prefix(s, n) == SubSeq(s, 1, Min(n, Len(s)))

TextOfLen(n, c) == [i \in 1..n |-> c]

\* Prompts and contents: empty, one character, and one character longer than
\* the longer of the two log previews.
Texts == {TextOfLen(0, 1), TextOfLen(1, 1), TextOfLen(OutputPreviewLen + 1, 1)}

\* ------------------------------------------------------------ JSON values
JNull == [t |-> "null"]
JStr(s) == [t |-> "str", s |-> s]
JNum(n) == [t |-> "num", n |-> n]
JList(l) == [t |-> "list", l |-> l]
JDict(d) == [t |-> "dict", d |-> d]
\* a response body that is not JSON at all
Raw == [t |-> "raw"]

\* Mutant: the emptiness test written as `is None`.
Truthy_NotNone(v) == v.t # "null"

\* Python truthiness of a decoded JSON value (`if not generated_content`).
Truthy(v) ==
    CASE v.t = "null" -> FALSE
      [] v.t = "str"  -> Len(v.s) > 0
      [] v.t = "num"  -> v.n # 0
      [] v.t = "list" -> Len(v.l) > 0
      [] v.t = "dict" -> DOMAIN v.d # {}
      [] OTHER        -> TRUE

\* ------------------------------------------------ Python calls that raise
Ok(v) == [exc |-> "", val |-> v]
Raise(cls) == [exc |-> cls, val |-> JNull]

\* x.get(key, default): only a dict has .get
PyGet(x, key, default) ==
    IF x.t = "dict"
    THEN Ok(IF key \in DOMAIN x.d THEN x.d[key] ELSE default)
    ELSE Raise("AttributeError")

\* x[0]
PyIndex0(x) ==
    CASE x.t = "list" -> IF Len(x.l) = 0 THEN Raise("IndexError") ELSE Ok(x.l[1])
      [] x.t = "str"  -> IF Len(x.s) = 0 THEN Raise("IndexError") ELSE Ok(JStr(Prefix(x.s, 1)))
      [] x.t = "dict" -> Raise("KeyError")
      [] OTHER        -> Raise("TypeError")

\* x[:n], evaluated for the log line of a successful response
PySlice(x, n) ==
    CASE x.t = "str"  -> Ok(JStr(Prefix(x.s, n)))
      [] x.t = "list" -> Ok(JList(Prefix(x.l, n)))
      [] OTHER        -> Raise("TypeError")

\* response.json(): the decoded body, or the JSON decode error of the
\* installed requests release (a RequestException since requests 2.27, a
\* plain ValueError before).
ResponseJson(resp) ==
    IF resp.body.t = "raw" THEN Raise(resp.jsonErr) ELSE Ok(resp.body)

\* Exception classes and their base classes (the class itself included).
Bases(cls) ==
    CASE cls = "Timeout"          -> {"Timeout", "RequestException", "Exception"}
      [] cls = "HTTPError"        -> {"HTTPError", "RequestException", "Exception"}
      [] cls = "ConnectionError"  -> {"ConnectionError", "RequestException", "Exception"}
      [] cls = "JSONDecodeError"  -> {"JSONDecodeError", "RequestException", "ValueError", "Exception"}
      [] cls = "HTTPException"    -> {"HTTPException", "Exception"}
      [] OTHER                    -> {cls, "Exception"}

IsInstance(cls, base) == base \in Bases(cls)

\* Mutant: only 5xx raises.
RaisesForStatus_ServerOnly(status) == 500 <= status /\ status < 600

\* response.raise_for_status(): HTTPError for 4xx and 5xx, nothing otherwise.
RaisesForStatus(status) == 400 <= status /\ status < 600

\* ------------------------------------------------------- /generate, pure
\* The handler's outcome: exc = "" for a normal return (status 200),
\* otherwise the class of the exception leaving the handler.  alerts lists
\* the trigger_n8n_alert calls made on the way, in order.
Outcome(exc, status, detail, text, alerts) ==
    [exc |-> exc, status |-> status, detail |-> detail, text |-> text, alerts |-> alerts]

Propagate(cls, alerts) == Outcome(cls, 0, <<>>, <<>>, alerts)

AlertCall(msg, request, response) == [msg |-> msg, request |-> request, response |-> response]

\* headers of the upstream request
Headers(apiKey) == [Authorization |-> apiKey, ContentType |-> "application/json"]

\* data: the upstream chat-completion request
UpstreamRequest(text) ==
    [model |-> TARGET_MODEL, content |-> text, max_tokens |-> MAX_TOKENS]

\* 'Insufficient credits'
InsufficientCredits ==
    <<73, 110, 115, 117, 102, 102, 105, 99, 105, 101, 110, 116, 32, 99, 114, 101, 100, 105, 116, 115>>

\* .get(key, default) and [0] on the result of the call before them: what
\* that call raised goes on unchanged
ThenGet(r, key, default) == IF r.exc # "" THEN r ELSE PyGet(r.val, key, default)
ThenIndex0(r) == IF r.exc # "" THEN r ELSE PyIndex0(r.val)

\* response.json().get('error', {}).get('message', 'Insufficient credits')
CreditMessage(error_data) ==
    ThenGet(ThenGet(error_data, "error", JDict(<<>>)), "message", JStr(InsufficientCredits))

\* response.json().get("choices", [{}])[0].get("message", {}).get("content")
GeneratedContent(response_json) ==
    ThenGet(ThenGet(ThenIndex0(ThenGet(response_json, "choices", JList(<<JDict(<<>>)>>))),
                    "message", JDict(<<>>)),
            "content", JNull)

\* Mutant: the log preview is returned instead of the content.
GPTResponse_Truncated(content) ==
    IF content.t = "str" THEN Ok(JStr(Prefix(content.s, OutputPreviewLen)))
    ELSE Raise("ValidationError")

\* GPTResponse(generated_text=...): the field is a str
GPTResponse(content) ==
    IF content.t = "str" THEN Ok(content) ELSE Raise("ValidationError")

CreditDetail(error_msg) ==
    <<"OpenRouter API credit issue: ", error_msg,
      ". Please visit https://openrouter.ai/settings/credits to upgrade your account.">>

\* the 402 branch of the try body, error_msg being computed
RaiseCredit(error_msg) ==
    IF error_msg.exc # "" THEN Propagate(error_msg.exc, <<>>)
    ELSE Outcome("HTTPException", 402, CreditDetail(error_msg.val), <<>>, <<>>)

CreditBranch(up) == RaiseCredit(CreditMessage(ResponseJson(up)))

\* the log line of the response, then return GPTResponse(...)
ReturnContent(preview, content) ==
    IF preview.exc # "" THEN Propagate(preview.exc, <<>>)
    ELSE IF GPTResponse(content).exc # "" THEN Propagate(GPTResponse(content).exc, <<>>)
    ELSE Outcome("", 200, <<>>, GPTResponse(content).val.s, <<>>)

\* the try body from `if not generated_content` on
CheckContent(generated_content, data) ==
    IF generated_content.exc # "" THEN Propagate(generated_content.exc, <<>>)
    ELSE IF ~Truthy(generated_content.val)
    THEN Outcome("HTTPException", 500, <<"Could not get a valid response from API.">>, <<>>,
                 <<AlertCall(<<"Empty or invalid response received from OpenRouter.">>, data, JNull)>>)
    ELSE ReturnContent(PySlice(generated_content.val, OutputPreviewLen), generated_content.val)

\* the try body after raise_for_status() passed
SuccessBranch(up, data) == CheckContent(GeneratedContent(ResponseJson(up)), data)

\* the try body: what it returns, or the exception it raises
TryBody(up, data) ==
    IF up.kind = "exception" THEN Propagate(up.exc, <<>>)
    ELSE IF up.status = 402 THEN CreditBranch(up)
    ELSE IF RaisesForStatus(up.status) THEN Propagate("HTTPError", <<>>)
    ELSE SuccessBranch(up, data)

\* Mutant: the `except HTTPException: raise` clause is missing.
ExceptClauses_NoReraise == <<"Timeout", "HTTPError", "RequestException", "Exception">>

\* Mutant: the general network clause comes before the timeout clause.
ExceptClauses_NetworkFirst == <<"HTTPException", "RequestException", "Timeout", "HTTPError", "Exception">>

\* the except clauses, in source order
ExceptClauses == <<"HTTPException", "Timeout", "HTTPError", "RequestException", "Exception">>

\* the first clause that matches the raised class
ExceptClause(cls) ==
    ExceptClauses[CHOOSE i \in 1..Len(ExceptClauses) :
                     /\ IsInstance(cls, ExceptClauses[i])
                     /\ \A j \in 1..(i - 1) : ~IsInstance(cls, ExceptClauses[j])]

TimeoutMsg == <<"OpenRouter API request timed out.">>

\* detail of the 502 raised for an upstream HTTP error
BadGatewayDetail(status) ==
    CASE status = 401 -> <<"Authentication error: Your OpenRouter API key is invalid or expired. Please check your API key in the .env file.">>
      [] status = 403 -> <<"Authorization error: You don't have permission to use this model or API. Please check your OpenRouter account.">>
      [] status = 429 -> <<"Rate limit exceeded: You've sent too many requests to OpenRouter API. Please try again later.">>
      [] status = 500 -> <<"OpenRouter API server error. Please try again later.">>
      [] OTHER        -> <<"Error communicating with OpenRouter API: Status code ", status>>

\* the except clauses applied to r, the result of the try body
Except(up, data, r, clause) ==
    IF r.exc = "" THEN r
    ELSE CASE clause = "HTTPException" -> r
           [] clause = "Timeout" ->
                Outcome("HTTPException", 504, TimeoutMsg, <<>>,
                        r.alerts \o <<AlertCall(TimeoutMsg, data, JNull)>>)
           [] clause = "HTTPError" ->
                Outcome("HTTPException", 502, BadGatewayDetail(up.status), <<>>,
                        r.alerts \o <<AlertCall(<<"OpenRouter API error: ", up.status>>, data, up.body)>>)
           [] clause = "RequestException" ->
                Outcome("HTTPException", 503,
                        <<"A network error occurred while connecting to the API. Please check your internet connection. Logs are saved in ", log_filename>>,
                        <<>>,
                        r.alerts \o <<AlertCall(<<"Network error: ", r.exc>>, data, JNull)>>)
           [] OTHER ->
                Outcome("HTTPException", 500,
                        <<"An unexpected error occurred on the server. Please check the logs at ", log_filename, " for more details.">>,
                        <<>>,
                        r.alerts \o <<AlertCall(<<"Unexpected server error: ", r.exc>>, data, JNull)>>)

\* generate_text from the moment the upstream call ends, as if every
\* trigger_n8n_alert call returns
generate_text(up, data) ==
    Except(up, data, TryBody(up, data), ExceptClause(TryBody(up, data).exc))

\* ------------------------------------------------------ the outside world
\* What the upstream requests.post can end in.
UpException(cls) == [kind |-> "exception", exc |-> cls, status |-> 0, body |-> Raw, jsonErr |-> ""]
UpResponse(status, body) == [kind |-> "response", exc |-> "", status |-> status, body |-> body, jsonErr |-> ""]
UpRawResponse(status, jsonErr) == [kind |-> "response", exc |-> "", status |-> status, body |-> Raw, jsonErr |-> jsonErr]
NoUpstream == [kind |-> "none", exc |-> "", status |-> 0, body |-> Raw, jsonErr |-> ""]

Choices(c) == JDict([choices |-> c])
Message(m) == Choices(JList(<<JDict([message |-> m])>>))
Content(c) == Message(JDict([content |-> c]))

\* bodies of a response that passes raise_for_status()
CompletionBodies ==
    << JDict(<<>>), JList(<<>>), Choices(JList(<<>>)), Choices(JNull),
       Choices(JList(<<JDict(<<>>)>>)), Message(JNull), Message(JDict(<<>>)),
       Content(JNull), Content(JNum(5)), Content(JList(<<JNum(5)>>)) >>
    \o << Content(JStr(TextOfLen(0, 1))), Content(JStr(TextOfLen(1, 1))),
          Content(JStr(TextOfLen(OutputPreviewLen + 1, 1))) >>

\* bodies of a 402 response
CreditBodies ==
    << JDict(<<>>), JList(<<>>), JDict([error |-> JDict(<<>>)]),
       JDict([error |-> JDict([message |-> JStr(TextOfLen(1, 1))])]),
       JDict([error |-> JStr(TextOfLen(1, 1))]), JDict([error |-> JNull]) >>

JsonErrorClasses == <<"JSONDecodeError", "ValueError">>

ErrorStatuses == <<401, 403, 404, 429, 500, 503>>

UpstreamOutcomes ==
    << UpException("Timeout"), UpException("ConnectionError"), UpException("UnicodeEncodeError") >>
    \o [i \in 1..Len(ErrorStatuses) |-> UpResponse(ErrorStatuses[i], JDict([error |-> JDict(<<>>)]))]
    \o [i \in 1..Len(CreditBodies) |-> UpResponse(402, CreditBodies[i])]
    \o [i \in 1..Len(JsonErrorClasses) |-> UpRawResponse(402, JsonErrorClasses[i])]
    \o [i \in 1..Len(CompletionBodies) |-> UpResponse(200, CompletionBodies[i])]
    \o [i \in 1..Len(JsonErrorClasses) |-> UpRawResponse(200, JsonErrorClasses[i])]
    \o << UpResponse(201, Content(JStr(TextOfLen(1, 1)))),
          UpResponse(304, Content(JStr(TextOfLen(1, 1)))),
          UpRawResponse(304, "JSONDecodeError"),
          UpResponse(300, Choices(JList(<<>>))) >>

\* What the webhook requests.post can end in.
WebhookResults == {"ok", "http_error", "network_error", "timeout"}

\* ------------------------------------------------------------------ state
VARIABLES
    environ,              \* os.environ, restricted to the two keys
    dotenv,               \* the .env file: key -> value, None when not named
    OPENROUTER_API_KEY,   \* module global
    N8N_WEBHOOK_URL,      \* module global
    lastReload,           \* configuration source at the last successful reload
    pc,                   \* where the event loop is
    req,                  \* the /generate request being served
    pending,              \* the handler's outcome while it is blocked in an alert
    alerts,               \* trigger_n8n_alert calls made for req, in order
    posts,                \* webhook POSTs issued for req
    response              \* the response handed to the caller

vars == <<environ, dotenv, OPENROUTER_API_KEY, N8N_WEBHOOK_URL,
          lastReload, pc, req, pending, alerts, posts, response>>

config == <<environ, dotenv, OPENROUTER_API_KEY, N8N_WEBHOOK_URL, lastReload>>
request == <<req, pending, alerts, posts, response>>

NoRequest ==
    [valid |-> FALSE, text |-> <<>>, headers |-> Headers(None),
     data |-> UpstreamRequest(<<>>), up |-> NoUpstream,
     cfg |-> [done |-> FALSE, key |-> None, url |-> None]]
NoOutcome == Propagate("", <<>>)
NoResponse == [status |-> 0, detail |-> <<>>, generated_text |-> <<>>]

\* The .env file overlaid on the process environment: what a reload reads.
ConfigSource(env, file) ==
    [k \in ConfigKeys |-> IF file[k] # None THEN file[k] ELSE env[k]]

\* Module start: load_dotenv(), the two getenv calls and the two checks that
\* stop the process when a value is missing or empty.
Init ==
    \E procEnv \in [ConfigKeys -> {None} \cup ConfigStrings] :
      \E file \in [ConfigKeys -> {None} \cup ConfigStrings] :
        LET env == load_dotenv(procEnv, file, FALSE)
        IN  /\ TruthyStr(getenv(env, "OPENROUTER_API_KEY"))
            /\ TruthyStr(getenv(env, "N8N_WEBHOOK_URL"))
            /\ environ = env
            /\ dotenv = file
            /\ OPENROUTER_API_KEY = getenv(env, "OPENROUTER_API_KEY")
            /\ N8N_WEBHOOK_URL = getenv(env, "N8N_WEBHOOK_URL")
            /\ lastReload = [done |-> FALSE, key |-> None, url |-> None]
            /\ pc = "idle"
            /\ req = NoRequest
            /\ pending = NoOutcome
            /\ alerts = <<>>
            /\ posts = <<>>
            /\ response = NoResponse

\* ------------------------------------------------------ trigger_n8n_alert
\* Mutant: the POST is handed to a background task and the caller goes on.
trigger_n8n_alert_Detached(url) ==
    IF ~TruthyStr(url) THEN "noop" ELSE "detach"

\* What a trigger_n8n_alert call does to its caller: "noop" returns without
\* a POST, "wait" issues the POST and blocks the caller until it has ended.
trigger_n8n_alert(url) ==
    IF ~TruthyStr(url) THEN "noop" ELSE "wait"

\* The exception the try body of trigger_n8n_alert raises, "" for none:
\* requests.post raises on a network failure, raise_for_status on a non-2xx.
WebhookException(result) ==
    CASE result = "ok"            -> ""
      [] result = "http_error"    -> "HTTPError"
      [] result = "network_error" -> "ConnectionError"
      [] result = "timeout"       -> "Timeout"

\* Mutant: only connection failures and timeouts are caught.
AlertSwallows_NetworkOnly(cls) ==
    cls = "" \/ IsInstance(cls, "ConnectionError") \/ IsInstance(cls, "Timeout")

\* trigger_n8n_alert returns normally: nothing was raised, or one of its two
\* except clauses took what was raised.
AlertSwallows(cls) ==
    cls = "" \/ IsInstance(cls, "RequestException") \/ IsInstance(cls, "Exception")

Post(url, call) == [url |-> url, msg |-> call.msg, state |-> "inflight"]

\* The response FastAPI builds from the handler's outcome.
ResponseOf(out) ==
    IF out.exc = "" THEN [status |-> 200, detail |-> <<>>, generated_text |-> out.text]
    ELSE IF out.exc = "HTTPException"
    THEN [status |-> out.status, detail |-> out.detail, generated_text |-> <<>>]
    ELSE [status |-> 500, detail |-> <<"Internal Server Error">>, generated_text |-> <<>>]

\* ---------------------------------------------------------------- actions
\* POST /generate arrives.  A body that does not validate as UserInput is
\* answered 422 by FastAPI and the handler does not run; otherwise the
\* handler builds headers and data and blocks in the upstream requests.post.
Receive ==
    /\ pc = "idle"
    /\ \E text \in Texts, valid \in BOOLEAN :
         /\ req' = [valid |-> valid,
                    text |-> IF valid THEN text ELSE <<>>,
                    headers |-> Headers(IF valid THEN OPENROUTER_API_KEY ELSE None),
                    data |-> UpstreamRequest(IF valid THEN text ELSE <<>>),
                    up |-> NoUpstream,
                    cfg |-> lastReload]
         /\ pc' = IF valid THEN "upstream" ELSE "done"
         /\ response' = IF valid THEN NoResponse
                        ELSE [status |-> 422, detail |-> <<"Unprocessable Entity">>, generated_text |-> <<>>]
    /\ pending' = NoOutcome
    /\ alerts' = <<>>
    /\ posts' = <<>>
    /\ UNCHANGED config

\* The handler goes on from the upstream outcome up: out is what it will
\* return or raise, mode what its alert call does to it.
AfterUpstream(up, out, mode) ==
    /\ req' = [req EXCEPT !.up = up]
    /\ IF out.alerts # <<>> /\ mode = "wait"
       THEN /\ alerts' = <<out.alerts[1]>>
            /\ posts' = <<Post(N8N_WEBHOOK_URL, out.alerts[1])>>
            /\ pending' = out
            /\ pc' = "alert"
            /\ response' = NoResponse
       ELSE /\ alerts' = out.alerts
            /\ posts' = IF mode = "noop" THEN <<>>
                        ELSE [j \in 1..Len(out.alerts) |-> Post(N8N_WEBHOOK_URL, out.alerts[j])]
            /\ pending' = NoOutcome
            /\ pc' = "done"
            /\ response' = ResponseOf(out)

\* The upstream call ends; the handler runs up to its first blocking alert,
\* or to its end.
UpstreamReturns ==
    /\ pc = "upstream"
    /\ \E i \in 1..Len(UpstreamOutcomes) :
         AfterUpstream(UpstreamOutcomes[i],
                       generate_text(UpstreamOutcomes[i], req.data),
                       trigger_n8n_alert(N8N_WEBHOOK_URL))
    /\ UNCHANGED config

\* A webhook POST ends.  trigger_n8n_alert logs the result and returns; the
\* handler blocked in it then makes its next alert call, or raises what it
\* had prepared.  An exception trigger_n8n_alert let through would leave the
\* handler from inside an except clause.
WebhookReturns ==
    /\ \E i \in 1..Len(posts), result \in WebhookResults :
         LET ended == [posts EXCEPT ![i].state = result]
             more == Len(alerts) < Len(pending.alerts)
         IN  /\ posts[i].state = "inflight"
             /\ IF pc # "alert"
                THEN /\ posts' = ended
                     /\ UNCHANGED <<pc, pending, alerts, response>>
                ELSE IF ~AlertSwallows(WebhookException(result))
                THEN /\ posts' = ended
                     /\ pc' = "done"
                     /\ pending' = NoOutcome
                     /\ response' = ResponseOf(Propagate(WebhookException(result), <<>>))
                     /\ UNCHANGED alerts
                ELSE IF more
                THEN /\ alerts' = Append(alerts, pending.alerts[Len(alerts) + 1])
                     /\ posts' = Append(ended, Post(N8N_WEBHOOK_URL, pending.alerts[Len(alerts) + 1]))
                     /\ UNCHANGED <<pc, pending, response>>
                ELSE /\ posts' = ended
                     /\ pc' = "done"
                     /\ pending' = NoOutcome
                     /\ response' = ResponseOf(pending)
                     /\ UNCHANGED alerts
    /\ UNCHANGED <<config, req>>

\* The response has gone out to the caller; the event loop is free again.
Deliver ==
    /\ pc = "done"
    /\ pc' = "idle"
    /\ req' = NoRequest
    /\ pending' = NoOutcome
    /\ alerts' = <<>>
    /\ posts' = <<>>
    /\ response' = NoResponse
    /\ UNCHANGED config

\* POST /reload-env.  Both handlers are coroutines that never await, so a
\* reload runs only between two /generate handlers, never inside one.
\* load_dotenv raises when the .env file cannot be opened or decoded; the
\* handler then answers 500 and the globals keep their values.
reload_environment ==
    /\ pc = "idle"
    /\ \E readable \in BOOLEAN :
       IF readable
       THEN LET env == load_dotenv(environ, dotenv, TRUE)
            IN  /\ lastReload' = [done |-> TRUE,
                                  key |-> ConfigSource(environ, dotenv)["OPENROUTER_API_KEY"],
                                  url |-> ConfigSource(environ, dotenv)["N8N_WEBHOOK_URL"]]
                /\ environ' = env
                /\ OPENROUTER_API_KEY' = getenv(env, "OPENROUTER_API_KEY")
                /\ N8N_WEBHOOK_URL' = getenv(env, "N8N_WEBHOOK_URL")
       ELSE UNCHANGED <<environ, OPENROUTER_API_KEY, N8N_WEBHOOK_URL, lastReload>>
    /\ UNCHANGED <<dotenv, pc, request>>

\* Somebody edits the .env file.  No /generate handler reads the file, so
\* an edit made while one runs is the same as the edit made right after it.
EditDotenv ==
    /\ pc = "idle"
    /\ \E k \in ConfigKeys, v \in {None} \cup ConfigStrings :
         /\ dotenv[k] # v
         /\ dotenv' = [dotenv EXCEPT ![k] = v]
    /\ UNCHANGED <<environ, OPENROUTER_API_KEY, N8N_WEBHOOK_URL, lastReload, pc, request>>

Next ==
    \/ Receive
    \/ UpstreamReturns
    \/ WebhookReturns
    \/ Deliver
    \/ reload_environment
    \/ EditDotenv

Spec == Init /\ [][Next]_vars

\* ----------------------------------------------------------------- claims
\* the handler of the current request ran and has finished
Finished == pc = "done" /\ req.valid
Answered(status) == Finished /\ response.status = status
PostInFlight == \E i \in 1..Len(posts) : posts[i].state = "inflight"
UpstreamStatus == IF req.up.kind = "response" THEN req.up.status ELSE 0

C2_Upstream402Gives402NoAlert ==
    (Finished /\ UpstreamStatus = 402) => (response.status = 402 /\ Len(alerts) = 0)

\* C3 as stated: every upstream status outside 2xx other than 402 is
\* answered 502, with the detail chosen by the status, after exactly one
\* trigger_n8n_alert call.
C3_NonSuccessGives502 ==
    (Finished /\ req.up.kind = "response" /\ UpstreamStatus \notin 200..299 /\ UpstreamStatus # 402)
        => (response.status = 502 /\ Len(alerts) = 1)

\* C3, amended: every upstream 4xx or 5xx status other than 402 is answered
\* 502 with the detail chosen by the status (401 authentication, 403
\* authorization, 429 rate limit, 500 upstream server error, any other a
\* generic message naming the status), and exactly one trigger_n8n_alert
\* call has been made, and has ended, before the 502 exists.
C3_ErrorStatusGives502 ==
    /\ (Finished /\ UpstreamStatus \in 400..599 /\ UpstreamStatus # 402) =>
          /\ response.status = 502
          /\ Len(alerts) = 1
          /\ alerts[1].msg = <<"OpenRouter API error: ", UpstreamStatus>>
          /\ ~PostInFlight
          /\ UpstreamStatus = 401 => response.detail = <<"Authentication error: Your OpenRouter API key is invalid or expired. Please check your API key in the .env file.">>
          /\ UpstreamStatus = 403 => response.detail = <<"Authorization error: You don't have permission to use this model or API. Please check your OpenRouter account.">>
          /\ UpstreamStatus = 429 => response.detail = <<"Rate limit exceeded: You've sent too many requests to OpenRouter API. Please try again later.">>
          /\ UpstreamStatus = 500 => response.detail = <<"OpenRouter API server error. Please try again later.">>
          /\ UpstreamStatus \notin {401, 403, 429, 500} =>
                /\ Len(response.detail) = 2
                /\ response.detail[1] = "Error communicating with OpenRouter API: Status code "
                /\ response.detail[2] = UpstreamStatus
    /\ (pc = "alert" /\ pending.status = 502) =>
          /\ response = NoResponse
          /\ Len(alerts) = 1

C3_Witness ==
    /\ Answered(502)
    /\ UpstreamStatus = 401
    /\ Len(posts) = 1
    /\ posts[1].state = "ok"

\* C4: for every prompt, a successful (2xx) upstream response whose
\* choices[0].message.content is a non-empty string is answered 200 with
\* generated_text equal to that content, and trigger_n8n_alert is not called.
C4_ContentReturnedUnmodified ==
    \A t \in Texts :
        (/\ Finished
         /\ t # <<>>
         /\ UpstreamStatus \in 200..299
         /\ req.up.body = Content(JStr(t)))
        => /\ response.status = 200
           /\ response.generated_text = t
           /\ Len(alerts) = 0
           /\ posts = <<>>

C4_Witness ==
    /\ Answered(200)
    /\ req.up.body = Content(JStr(TextOfLen(OutputPreviewLen + 1, 1)))
    /\ Len(response.generated_text) = OutputPreviewLen + 1
    /\ Len(req.text) > InputPreviewLen

\* C5: an upstream 200 whose choices list is empty, or whose
\* choices[0].message.content is absent or empty, is answered 500 with
\* exactly one trigger_n8n_alert call.
C5_EmptyCompletionGives500 ==
    (/\ Finished
     /\ UpstreamStatus = 200
     /\ \/ req.up.body = Choices(JList(<<>>))
        \/ req.up.body = Choices(JList(<<JDict(<<>>)>>))
        \/ req.up.body = Message(JDict(<<>>))
        \/ req.up.body = Content(JNull)
        \/ req.up.body = Content(JStr(<<>>)))
    => (response.status = 500 /\ Len(alerts) = 1)

C5_Witness ==
    /\ Answered(500)
    /\ req.up = UpResponse(200, Choices(JList(<<>>)))
    /\ Len(alerts) = 1

\* C6: an upstream timeout is answered 504, never 503 or 500, with exactly
\* one trigger_n8n_alert call whose message describes the timeout.
C6_TimeoutGives504 ==
    (Finished /\ req.up.kind = "exception" /\ req.up.exc = "Timeout")
        => /\ response.status = 504
           /\ Len(alerts) = 1
           /\ alerts[1].msg = <<"OpenRouter API request timed out.">>

C6_Witness ==
    /\ Answered(504)
    /\ req.up.exc = "Timeout"
    /\ Len(posts) = 1
    /\ posts[1].msg = <<"OpenRouter API request timed out.">>

C8_AlertNeverChangesOutcome ==
    /\ Finished => response = ResponseOf(generate_text(req.up, req.data))
    /\ Finished => response.status \in {200, 402, 500, 502, 503, 504}
    /\ Finished /\ response.status = 500 => Len(alerts) = 1
    /\ Len(posts) <= Len(alerts)
    /\ \A i \in 1..Len(posts) : TruthyStr(posts[i].url) /\ posts[i].msg = alerts[i].msg
    /\ (pc # "idle" /\ ~TruthyStr(N8N_WEBHOOK_URL)) => posts = <<>>

C8_Witness ==
    /\ Answered(504)
    /\ Len(posts) = 1
    /\ posts[1].state = "http_error"

\* C9: after a successful /reload-env, every /generate request that starts
\* afterwards sends the API key, and sends any alert to the webhook URL,
\* that the configuration source held at that reload, also when the .env
\* file has been edited since.
C9_RequestsUseReloadedValues ==
    /\ lastReload.done =>
          /\ OPENROUTER_API_KEY = lastReload.key
          /\ N8N_WEBHOOK_URL = lastReload.url
    /\ (pc # "idle" /\ req.valid) => req.cfg = lastReload
    /\ (pc # "idle" /\ req.valid /\ req.cfg.done) =>
          /\ req.headers.Authorization = req.cfg.key
          /\ \A i \in 1..Len(posts) : posts[i].url = req.cfg.url
          /\ (alerts # <<>> /\ TruthyStr(req.cfg.url)) => posts # <<>>

C9_Witness ==
    /\ Finished
    /\ req.cfg.done
    /\ Len(posts) = 1
    /\ dotenv["OPENROUTER_API_KEY"] \notin {None, req.headers.Authorization}
    /\ dotenv["N8N_WEBHOOK_URL"] \notin {None, posts[1].url}

\* C10: in every state after a successful startup the API key and the
\* webhook URL are both set and non-empty.
C10_ConfigAlwaysSet ==
    TruthyStr(OPENROUTER_API_KEY) /\ TruthyStr(N8N_WEBHOOK_URL)

====
